---- MODULE Spec2Model ----
(***************************************************************************)
(* Model of @ldesign/node-manager (src/src/index.ts): the NodeManager      *)
(* class.  Strings are sequences of one-character strings, so that         *)
(* parsing, formatting, trimming and textual equality are computed, not    *)
(* assumed.  Subprocesses and the filesystem are external: each call       *)
(* draws their outcomes from bounded sets.                                 *)
(***************************************************************************)
EXTENDS Integers, Sequences, FiniteSets, TLC

VARIABLES
  platform,  \* process.platform
  given,     \* the argument the constructor was called with
  config,    \* this.config
  op,        \* the method the caller has called, "idle" when none
  args,      \* its arguments
  world,     \* what the filesystem and the subprocesses answered during it
  result,    \* what it returned or threw
  trace,     \* the subprocesses it invoked, in order
  logged     \* what it wrote to the console

vars == <<platform, given, config, op, args, world, result, trace, logged>>

(* ---------------------------------------------------------------------- *)
(* Bounds                                                                  *)
(* ---------------------------------------------------------------------- *)

\* largest number of children of the install directory
MaxEntries == 3

(* ---------------------------------------------------------------------- *)
(* Characters and strings                                                  *)
(* ---------------------------------------------------------------------- *)

Digits == {"0", "1", "2", "3", "4", "5", "6", "7", "8", "9"}

Alphabet ==
  <<"a", "b", "c", "d", "e", "f", "g", "h", "i", "j", "k", "l", "m",
    "n", "o", "p", "q", "r", "s", "t", "u", "v", "w", "x", "y", "z">>

Letters == {Alphabet[i] : i \in 1..Len(Alphabet)}

Whitespace == {" ", "\n"}

DigitVal(c) ==
  CASE c = "0" -> 0 [] c = "1" -> 1 [] c = "2" -> 2 [] c = "3" -> 3
    [] c = "4" -> 4 [] c = "5" -> 5 [] c = "6" -> 6 [] c = "7" -> 7
    [] c = "8" -> 8 [] c = "9" -> 9

DigitChar(n) ==
  CASE n = 0 -> "0" [] n = 1 -> "1" [] n = 2 -> "2" [] n = 3 -> "3"
    [] n = 4 -> "4" [] n = 5 -> "5" [] n = 6 -> "6" [] n = 7 -> "7"
    [] n = 8 -> "8" [] n = 9 -> "9"

\* UTF-16 code unit of a character, the order JavaScript's < on strings uses
CharCode(c) ==
  CASE c \in Digits -> 48 + DigitVal(c)
    [] c \in Letters -> 96 + (CHOOSE i \in 1..Len(Alphabet) : Alphabet[i] = c)
    [] c = "-" -> 45 [] c = "+" -> 43 [] c = "." -> 46
    [] OTHER -> 0

\* a < b on JavaScript strings
RECURSIVE StrLess(_, _)
StrLess(a, b) ==
  IF Len(b) = 0 THEN FALSE
  ELSE IF Len(a) = 0 THEN TRUE
  ELSE IF a[1] = b[1] THEN StrLess(Tail(a), Tail(b))
  ELSE CharCode(a[1]) < CharCode(b[1])

\* String.prototype.startsWith(c) for a one-character c
StartsWith(s, c) == Len(s) > 0 /\ s[1] = c

\* versionStr.replace(/^v/, '')
StripV(s) == IF StartsWith(s, "v") THEN Tail(s) ELSE s

\* index of the first character of s that is in cs, 0 when there is none
RECURSIVE IndexOf(_, _, _)
IndexOf(s, cs, from) ==
  IF from > Len(s) THEN 0
  ELSE IF s[from] \in cs THEN from
  ELSE IndexOf(s, cs, from + 1)

\* String.prototype.split(sep) for a one-character sep
RECURSIVE Split(_, _)
Split(s, sep) ==
  LET i == IndexOf(s, {sep}, 1)
  IN IF i = 0 THEN <<s>>
     ELSE <<SubSeq(s, 1, i - 1)>> \o Split(SubSeq(s, i + 1, Len(s)), sep)

\* Array.prototype.join(sep)
RECURSIVE JoinWith(_, _)
JoinWith(parts, sep) ==
  IF Len(parts) = 0 THEN <<>>
  ELSE IF Len(parts) = 1 THEN parts[1]
  ELSE parts[1] \o <<sep>> \o JoinWith(Tail(parts), sep)

RECURSIVE TrimStart(_)
TrimStart(s) ==
  IF Len(s) > 0 /\ s[1] \in Whitespace THEN TrimStart(Tail(s)) ELSE s

RECURSIVE TrimEnd(_)
TrimEnd(s) ==
  IF Len(s) > 0 /\ s[Len(s)] \in Whitespace
  THEN TrimEnd(SubSeq(s, 1, Len(s) - 1)) ELSE s

\* String.prototype.trim()
Trim(s) == TrimEnd(TrimStart(s))

\* decimal string -> number
RECURSIVE ToNum(_)
ToNum(s) ==
  IF Len(s) = 0 THEN 0
  ELSE 10 * ToNum(SubSeq(s, 1, Len(s) - 1)) + DigitVal(s[Len(s)])

\* number -> decimal string, as template literals format a number
RECURSIVE NumToStr(_)
NumToStr(n) ==
  IF n < 10 THEN <<DigitChar(n)>>
  ELSE NumToStr(n \div 10) \o <<DigitChar(n % 10)>>

(* ---------------------------------------------------------------------- *)
(* The semver library, as used by parseVersion and compareVersions         *)
(* ---------------------------------------------------------------------- *)

AllIn(s, cs) == \A i \in 1..Len(s) : s[i] \in cs

\* NUMERICIDENTIFIER: 0|[1-9]\d*
IsNumericId(s) ==
  /\ Len(s) > 0
  /\ AllIn(s, Digits)
  /\ (Len(s) = 1 \/ s[1] # "0")

\* PRERELEASEIDENTIFIER: a numeric identifier, or \d*[a-zA-Z-][a-zA-Z0-9-]*
IsPrereleaseId(s) ==
  \/ IsNumericId(s)
  \/ /\ Len(s) > 0
     /\ AllIn(s, Digits \cup Letters \cup {"-"})
     /\ ~AllIn(s, Digits)

\* BUILDIDENTIFIER: [a-zA-Z0-9-]+
IsBuildId(s) == Len(s) > 0 /\ AllIn(s, Digits \cup Letters \cup {"-"})

\* the three parts of a version string after the optional "v" of the grammar
SemverPieces(t) ==
  LET i == IndexOf(t, {"-", "+"}, 1)
      j == IF i > 0 /\ t[i] = "-" THEN IndexOf(t, {"+"}, i + 1) ELSE i
  IN [main     |-> IF i = 0 THEN t ELSE SubSeq(t, 1, i - 1),
      hasPre   |-> i > 0 /\ t[i] = "-",
      pre      |-> IF i > 0 /\ t[i] = "-"
                   THEN SubSeq(t, i + 1, IF j = 0 THEN Len(t) ELSE j - 1)
                   ELSE <<>>,
      hasBuild |-> j > 0,
      build    |-> IF j > 0 THEN SubSeq(t, j + 1, Len(t)) ELSE <<>>]

\* a prerelease identifier as the library stores it: numeric ones as numbers
PreId(s) ==
  IF IsNumericId(s) THEN [num |-> TRUE, n |-> ToNum(s), s |-> NumToStr(ToNum(s))]
  ELSE [num |-> FALSE, n |-> 0, s |-> s]

\* the SemVer object built from the matched groups: the numbers converted,
\* the version formatted from them
SemVerObject(major, minor, patch, pre) ==
  [null       |-> FALSE,
   major      |-> major,
   minor      |-> minor,
   patch      |-> patch,
   prerelease |-> pre,
   version    |-> NumToStr(major) \o <<".">> \o NumToStr(minor) \o <<".">>
                    \o NumToStr(patch)
                    \o (IF Len(pre) = 0 THEN <<>>
                        ELSE <<"-">>
                               \o JoinWith([k \in 1..Len(pre) |-> pre[k].s], "."))]

\* the match of the strict grammar on the pieces of a version string
SemverMatch(p, nums, pres, blds) ==
  IF /\ Len(nums) = 3
     /\ \A k \in 1..Len(nums) : IsNumericId(nums[k])
     /\ p.hasPre => \A k \in 1..Len(pres) : IsPrereleaseId(pres[k])
     /\ p.hasBuild => \A k \in 1..Len(blds) : IsBuildId(blds[k])
  THEN SemVerObject(ToNum(nums[1]), ToNum(nums[2]), ToNum(nums[3]),
                    IF p.hasPre THEN [k \in 1..Len(pres) |-> PreId(pres[k])]
                    ELSE <<>>)
  ELSE [null |-> TRUE]

SemverOfPieces(p) ==
  SemverMatch(p, Split(p.main, "."), Split(p.pre, "."), Split(p.build, "."))

\* semver.parse(s): the SemVer object, or null.  The grammar allows one "v"
\* in front of the version.
SemverParse(s) == SemverOfPieces(SemverPieces(StripV(s)))

Sign(n) == IF n < 0 THEN -1 ELSE IF n > 0 THEN 1 ELSE 0

\* compareIdentifiers(a, b) of the library
CompareIdentifiers(a, b) ==
  IF a.num /\ b.num THEN Sign(a.n - b.n)
  ELSE IF a.num /\ ~b.num THEN -1
  ELSE IF b.num /\ ~a.num THEN 1
  ELSE IF a.s = b.s THEN 0
  ELSE IF StrLess(a.s, b.s) THEN -1 ELSE 1

\* SemVer.comparePre
RECURSIVE ComparePre(_, _, _)
ComparePre(a, b, i) ==
  IF i = 1 /\ Len(a) > 0 /\ Len(b) = 0 THEN -1
  ELSE IF i = 1 /\ Len(a) = 0 /\ Len(b) > 0 THEN 1
  ELSE IF i > Len(a) /\ i > Len(b) THEN 0
  ELSE IF i > Len(b) THEN 1
  ELSE IF i > Len(a) THEN -1
  ELSE IF a[i] = b[i] THEN ComparePre(a, b, i + 1)
  ELSE CompareIdentifiers(a[i], b[i])

NumId(n) == [num |-> TRUE, n |-> n, s |-> <<>>]

\* SemVer.compareMain
CompareMain(x, y) ==
  IF x.major # y.major THEN CompareIdentifiers(NumId(x.major), NumId(y.major))
  ELSE IF x.minor # y.minor THEN CompareIdentifiers(NumId(x.minor), NumId(y.minor))
  ELSE CompareIdentifiers(NumId(x.patch), NumId(y.patch))

\* c || d on numbers
FirstNonZero(c, d) == IF c # 0 THEN c ELSE d

\* SemVer.compare
CompareSemVers(x, y) ==
  IF x.null \/ y.null THEN [kind |-> "throw"]
  ELSE [kind |-> "ok",
        value |-> FirstNonZero(CompareMain(x, y),
                               ComparePre(x.prerelease, y.prerelease, 1))]

\* semver.compare(a, b): throws a TypeError on an invalid version
SemverCompare(a, b) == CompareSemVers(SemverParse(a), SemverParse(b))

(* ---------------------------------------------------------------------- *)
(* NodeManager: pure methods                                               *)
(* ---------------------------------------------------------------------- *)

\* the NodeVersion with the "v" left off its version
NodeVersionOf_NoPrefix(parsed) ==
  IF parsed.null THEN [null |-> TRUE]
  ELSE [null    |-> FALSE,
        version |-> parsed.version,
        major   |-> parsed.major,
        minor   |-> parsed.minor,
        patch   |-> parsed.patch]

\* the NodeVersion parseVersion returns for a SemVer object, null for null
NodeVersionOf(parsed) ==
  IF parsed.null THEN [null |-> TRUE]
  ELSE [null    |-> FALSE,
        version |-> <<"v">> \o parsed.version,
        major   |-> parsed.major,
        minor   |-> parsed.minor,
        patch   |-> parsed.patch]

\* parseVersion(versionStr): NodeVersion | null
parseVersion(versionStr) == NodeVersionOf(SemverParse(StripV(versionStr)))

\* compareVersions(v1, v2)
compareVersions(v1, v2) == SemverCompare(StripV(v1), StripV(v2))

(* ---------------------------------------------------------------------- *)
(* Paths                                                                   *)
(* ---------------------------------------------------------------------- *)

Platforms == {"linux", "darwin", "win32"}

\* path.sep
PathSep(plat) == IF plat = "win32" THEN "\\" ELSE "/"

\* os.homedir()
HomeDir(plat) == IF plat = "win32" THEN <<"C", ":", "\\", "u">> ELSE <<"/", "h">>

\* path.join(...parts) on parts that are already normalised (no "." or ".."
\* segment, no separator at an end): the non-empty parts joined by path.sep,
\* "." when there is none
PathJoin(plat, parts) ==
  LET nonEmpty == SelectSeq(parts, LAMBDA x : Len(x) > 0)
  IN IF Len(nonEmpty) = 0 THEN <<".">>
     ELSE JoinWith(nonEmpty, PathSep(plat))

S_ldesign == <<".", "l", "d", "e", "s", "i", "g", "n">>
S_node == <<"n", "o", "d", "e">>
S_bin == <<"b", "i", "n">>
S_node_exe == <<"n", "o", "d", "e", ".", "e", "x", "e">>

\* 'https://nodejs.org/dist'
DefaultMirror ==
  <<"h", "t", "t", "p", "s", ":", "/", "/", "n", "o", "d", "e", "j", "s",
    ".", "o", "r", "g", "/", "d", "i", "s", "t">>

(* ---------------------------------------------------------------------- *)
(* Configuration                                                           *)
(* ---------------------------------------------------------------------- *)

\* A property of a JavaScript object: not an own property, an own property
\* holding undefined, or an own property holding a value.
Absent == [k |-> "absent"]
Undef == [k |-> "undef"]
Val(x) == [k |-> "val", v |-> x]

\* x || d on an optional string: undefined and '' are falsy
OrElse(x, d) == IF x.k = "val" /\ x.v # <<>> THEN x ELSE Val(d)

\* x ?? d
Nullish(x, d) == IF x.k = "val" THEN x ELSE Val(d)

\* { ...base, ...over } for one property: an own property of over, whatever
\* it holds, replaces the one of base
Spread(base, over) == IF over.k = "absent" THEN base ELSE over

\* constructor(config = {})
constructor(plat, cfg) ==
  [installDir |-> Spread(OrElse(cfg.installDir,
                                PathJoin(plat, <<HomeDir(plat), S_ldesign, S_node>>)),
                         cfg.installDir),
   mirror     |-> Spread(OrElse(cfg.mirror, DefaultMirror), cfg.mirror),
   verbose    |-> Spread(Nullish(cfg.verbose, FALSE), cfg.verbose),
   proxy      |-> Spread(Absent, cfg.proxy)]

\* getVersionPath(version): path.join throws a TypeError on a non-string
getVersionPath(plat, cfg, version) ==
  IF cfg.installDir.k # "val" THEN [kind |-> "throw", error |-> "TypeError"]
  ELSE [kind |-> "ok", value |-> PathJoin(plat, <<cfg.installDir.v, version>>)]

(* ---------------------------------------------------------------------- *)
(* getCurrentEnvironment                                                   *)
(* ---------------------------------------------------------------------- *)

\* An execa outcome: ok with the captured stdout, or a rejection.
ExecOk(out) == [ok |-> TRUE, stdout |-> out]
ExecFail == [ok |-> FALSE, stdout |-> <<>>]

\* the lookup with the two commands in the other order
Lookup_WhereFirst(name, which, where) ==
  IF where.ok THEN [out |-> where, cmds |-> <<<<"where", name>>>>]
  ELSE [out |-> which, cmds |-> <<<<"where", name>>, <<"which", name>>>>]

\* execa('which', [name]).catch(() => execa('where', [name])): the outcome
\* and the commands invoked, in order
Lookup(name, which, where) ==
  IF which.ok THEN [out |-> which, cmds |-> <<<<"which", name>>>>]
  ELSE [out |-> where, cmds |-> <<<<"which", name>>, <<"where", name>>>>]

\* getCurrentEnvironment with the npm version caught and left empty
getCurrentEnvironment_Partial(plat, e) ==
  LET nodeLk == Lookup("node", e.whichNode, e.whereNode)
      npmLk  == Lookup("npm", e.whichNpm, e.whereNpm)
      c2     == <<<<"node", "--version">>, <<"npm", "--version">>>>
      c4     == c2 \o nodeLk.cmds \o npmLk.cmds
  IN IF ~e.node.ok \/ ~nodeLk.out.ok \/ ~npmLk.out.ok
     THEN [kind |-> "throw", error |-> "Failed to get Node environment",
           cause |-> <<"node", "--version">>, cmds |-> c4]
     ELSE [kind |-> "ok",
           value |-> [nodeVersion |-> Trim(e.node.stdout),
                      npmVersion  |-> Trim(e.npm.stdout),
                      nodePath    |-> Trim(Split(nodeLk.out.stdout, "\n")[1]),
                      npmPath     |-> Trim(Split(npmLk.out.stdout, "\n")[1]),
                      platform    |-> plat],
           cmds |-> c4]

\* getCurrentEnvironment(): e holds the outcome each subprocess would have.
\* The result, and the commands invoked in order.
getCurrentEnvironment(plat, e) ==
  LET nodeLk == Lookup("node", e.whichNode, e.whereNode)
      npmLk  == Lookup("npm", e.whichNpm, e.whereNpm)
      c1     == <<<<"node", "--version">>>>
      c2     == c1 \o <<<<"npm", "--version">>>>
      c3     == c2 \o nodeLk.cmds
      c4     == c3 \o npmLk.cmds
      fail(cause, cmds) ==
        [kind |-> "throw", error |-> "Failed to get Node environment",
         cause |-> cause, cmds |-> cmds]
  IN IF ~e.node.ok THEN fail(<<"node", "--version">>, c1)
     ELSE IF ~e.npm.ok THEN fail(<<"npm", "--version">>, c2)
     ELSE IF ~nodeLk.out.ok THEN fail(<<"where", "node">>, c3)
     ELSE IF ~npmLk.out.ok THEN fail(<<"where", "npm">>, c4)
     ELSE [kind |-> "ok",
           value |-> [nodeVersion |-> Trim(e.node.stdout),
                      npmVersion  |-> Trim(e.npm.stdout),
                      nodePath    |-> Trim(Split(nodeLk.out.stdout, "\n")[1]),
                      npmPath     |-> Trim(Split(npmLk.out.stdout, "\n")[1]),
                      platform    |-> plat],
           cmds |-> c4]

(* ---------------------------------------------------------------------- *)
(* getInstalledVersions, isVersionInstalled, validateInstallation          *)
(* ---------------------------------------------------------------------- *)

\* the loop body without the isDirectory() test
PushVersion_AnyKind(plat, installDir, currentEnv, entry, versionInfo) ==
  IF StartsWith(entry.name, "v") /\ ~versionInfo.null
  THEN <<[version |-> versionInfo.version,
          major   |-> versionInfo.major,
          minor   |-> versionInfo.minor,
          patch   |-> versionInfo.patch,
          path    |-> PathJoin(plat, <<installDir, entry.name>>),
          current |-> currentEnv.kind = "ok"
                        /\ currentEnv.value.nodeVersion = entry.name,
          default |-> FALSE]>>
  ELSE <<>>

\* the loop body with current decided by the canonical version
PushVersion_CurrentByVersion(plat, installDir, currentEnv, entry, versionInfo) ==
  IF entry.isDirectory /\ StartsWith(entry.name, "v") /\ ~versionInfo.null
  THEN <<[version |-> versionInfo.version,
          major   |-> versionInfo.major,
          minor   |-> versionInfo.minor,
          patch   |-> versionInfo.patch,
          path    |-> PathJoin(plat, <<installDir, entry.name>>),
          current |-> currentEnv.kind = "ok"
                        /\ currentEnv.value.nodeVersion = versionInfo.version,
          default |-> FALSE]>>
  ELSE <<>>

\* The body of the loop over the Dirents, versionInfo being
\* parseVersion(entry.name): the InstalledNodeVersion pushed for the entry,
\* none when the entry is skipped.
PushVersion(plat, installDir, currentEnv, entry, versionInfo) ==
  IF entry.isDirectory /\ StartsWith(entry.name, "v") /\ ~versionInfo.null
  THEN <<[version |-> versionInfo.version,
          major   |-> versionInfo.major,
          minor   |-> versionInfo.minor,
          patch   |-> versionInfo.patch,
          path    |-> PathJoin(plat, <<installDir, entry.name>>),
          current |-> currentEnv.kind = "ok"
                        /\ currentEnv.value.nodeVersion = entry.name,
          default |-> FALSE]>>
  ELSE <<>>

\* one iteration of the loop
EntryVersion(plat, installDir, currentEnv, entry) ==
  PushVersion(plat, installDir, currentEnv, entry, parseVersion(entry.name))

\* the for loop over entries
RECURSIVE CollectVersions(_, _, _, _)
CollectVersions(plat, installDir, currentEnv, entries) ==
  IF Len(entries) = 0 THEN <<>>
  ELSE EntryVersion(plat, installDir, currentEnv, Head(entries))
         \o CollectVersions(plat, installDir, currentEnv, Tail(entries))

\* the comparator with its arguments in the other order
SortComparator_Ascending(a, b) == compareVersions(a.version, b.version)

\* the comparator handed to sort: compareVersions(b.version, a.version)
SortComparator(a, b) == compareVersions(b.version, a.version)

\* x put into an already sorted sequence, after every element that does not
\* sort after it (Array.prototype.sort is stable)
RECURSIVE InsertSorted(_, _)
InsertSorted(sorted, x) ==
  IF Len(sorted) = 0 THEN <<x>>
  ELSE IF SortComparator(Head(sorted), x).value > 0 THEN <<x>> \o sorted
  ELSE <<Head(sorted)>> \o InsertSorted(Tail(sorted), x)

RECURSIVE SortVersions(_)
SortVersions(versions) ==
  IF Len(versions) = 0 THEN <<>>
  ELSE InsertSorted(SortVersions(SubSeq(versions, 1, Len(versions) - 1)),
                    versions[Len(versions)])

\* sort calls the comparator on every element once there are two of them,
\* and the comparator throws on an element that is not a version
SortThrows(versions) ==
  /\ Len(versions) >= 2
  /\ \E i \in 1..Len(versions) :
       SortComparator(versions[i], versions[i]).kind = "throw"

\* the sort and the return, after the loop has filled versions
SortedVersions(env, versions, caught) ==
  IF SortThrows(versions)
  THEN [caught EXCEPT !.cmds = env.cmds, !.queries = 1]
  ELSE [kind |-> "ok", value |-> SortVersions(versions), cmds |-> env.cmds,
        queries |-> 1, logged |-> <<>>]

\* the loop, given the answer of getCurrentEnvironment().catch(() => null)
LoopAndSort(plat, cfg, w, env, caught) ==
  SortedVersions(env,
                 CollectVersions(plat, cfg.installDir.v, env, w.entries),
                 caught)

\* getInstalledVersions() once the directory has been listed: the query of
\* the environment, the loop and the sort
ListedVersions(plat, cfg, w, caught) ==
  LoopAndSort(plat, cfg, w, getCurrentEnvironment(plat, w.env), caught)

\* getInstalledVersions with a failed listing left uncaught
getInstalledVersions_Uncaught(plat, cfg, w) ==
  LET caught == [kind |-> "throw", value |-> <<>>, cmds |-> <<>>, queries |-> 0,
                 logged |-> <<>>]
  IN IF cfg.installDir.k # "val" \/ ~w.pathExists
     THEN [kind |-> "ok", value |-> <<>>, cmds |-> <<>>, queries |-> 0,
           logged |-> <<>>]
     ELSE IF ~w.readdirOk THEN caught
     ELSE ListedVersions(plat, cfg, w, caught)

\* getInstalledVersions(): w holds what the filesystem and the subprocesses
\* would answer.  The result, the commands invoked, how often the
\* environment was queried, and what was logged.
getInstalledVersions(plat, cfg, w) ==
  LET caught == [kind |-> "ok", value |-> <<>>, cmds |-> <<>>, queries |-> 0,
                 logged |-> IF cfg.verbose.k = "val" /\ cfg.verbose.v
                            THEN <<"Failed to get installed versions:">>
                            ELSE <<>>]
  IN IF cfg.installDir.k # "val" \/ ~w.pathExists
     THEN [kind |-> "ok", value |-> <<>>, cmds |-> <<>>, queries |-> 0,
           logged |-> <<>>]
     ELSE IF ~w.readdirOk THEN caught
     ELSE ListedVersions(plat, cfg, w, caught)

\* the test with the "v" prefix ignored on both sides
SomeVersionIs_Normalised(installedVersions, version) ==
  [installedVersions EXCEPT
     !.value = \E i \in 1..Len(installedVersions.value) :
                 StripV(installedVersions.value[i].version) = StripV(version)]

\* installedVersions.some(v => v.version === version)
SomeVersionIs(installedVersions, version) ==
  [installedVersions EXCEPT
     !.value = \E i \in 1..Len(installedVersions.value) :
                 installedVersions.value[i].version = version]

\* isVersionInstalled(version)
isVersionInstalled(plat, cfg, w, version) ==
  SomeVersionIs(getInstalledVersions(plat, cfg, w), version)

\* the binary location without the Windows case
BinPath_Posix(plat, versionPath) == PathJoin(plat, <<versionPath, S_bin, S_node>>)

\* the binary validateInstallation looks for
BinPath(plat, versionPath) ==
  IF plat = "win32" THEN PathJoin(plat, <<versionPath, S_node_exe>>)
  ELSE PathJoin(plat, <<versionPath, S_bin, S_node>>)

\* validateInstallation(versionPath): w.files are the files that exist,
\* w.exec the outcome running a file would have
validateInstallation(plat, w, versionPath) ==
  LET binPath == BinPath(plat, versionPath)
  IN IF binPath \notin w.files
     THEN [kind |-> "ok", value |-> FALSE, cmds |-> <<>>]
     ELSE IF ~w.exec.ok
     THEN [kind |-> "ok", value |-> FALSE, cmds |-> <<<<binPath, "--version">>>>]
     ELSE [kind |-> "ok", value |-> StartsWith(Trim(w.exec.stdout), "v"),
           cmds |-> <<<<binPath, "--version">>>>]

(* ---------------------------------------------------------------------- *)
(* Inputs                                                                  *)
(* ---------------------------------------------------------------------- *)

S_v18 == <<"v", "1", "8", ".", "0", ".", "0">>
S_v20 == <<"v", "2", "0", ".", "0", ".", "0">>
S_v20_rc == S_v20 \o <<"-", "r", "c">>
S_v20_b == S_v20 \o <<"+", "b">>
S_v16 == <<"v", "1", "6", ".", "0", ".", "0">>
S_vv9 == <<"v", "v", "9", ".", "0", ".", "0">>
S_v1_2 == <<"v", "1", ".", "2">>
S_not_a_version ==
  <<"n", "o", "t", "-", "a", "-", "v", "e", "r", "s", "i", "o", "n">>

\* version strings handed to parseVersion: prefix, three numbers, suffix
VersionPrefixes == {<<>>, <<"v">>, <<"v", "v">>, <<"x">>}
NumberStrings == {<<"0">>, <<"2">>, <<"1", "0">>, <<"0", "1">>}
VersionSuffixes ==
  {<<>>, <<"-", "r", "c">>, <<"-", "r", "c", ".", "1">>, <<"-", "0", "1">>,
   <<"-">>, <<"+", "b">>, <<"-", "a", "+", "b">>, <<"+">>, <<".", "4">>}

VersionStrings ==
  {p \o a \o <<".">> \o b \o <<".">> \o c \o x :
     p \in VersionPrefixes, a \in NumberStrings, b \in NumberStrings,
     c \in NumberStrings, x \in VersionSuffixes}
  \cup {S_not_a_version, S_v1_2, <<>>, <<"v">>}

\* version strings handed to compareVersions
CompareStrings ==
  {S_v18, S_v20, Tail(S_v20), S_v20_rc, S_v20_b, S_v20 \o <<"-", "r", "c", ".", "1">>,
   S_v20 \o <<"-", "1">>, S_v20 \o <<"-", "2">>, S_v20 \o <<"-", "a">>,
   <<"v", "2", ".", "1", "0", ".", "0">>, <<"v", "2", ".", "9", ".", "0">>,
   S_vv9, S_not_a_version}

\* what the caller may hand to the constructor
ConfigInputs ==
  [installDir : {Absent, Undef, Val(<<>>), Val(<<"n">>)},
   mirror     : {Absent, Undef, Val(<<>>), Val(<<"m">>)},
   verbose    : {Absent, Undef, Val(FALSE), Val(TRUE)},
   proxy      : {Absent, Val(<<"p">>)}]

EmptyConfig ==
  [installDir |-> Absent, mirror |-> Absent, verbose |-> Absent, proxy |-> Absent]

\* the children an install directory may have
EntryUniverse ==
  {[name |-> S_v18, isDirectory |-> TRUE],
   [name |-> S_v20, isDirectory |-> TRUE],
   [name |-> S_v20_rc, isDirectory |-> TRUE],
   [name |-> S_v20_b, isDirectory |-> TRUE],
   [name |-> S_v16, isDirectory |-> FALSE],
   [name |-> Tail(S_v18), isDirectory |-> TRUE],
   [name |-> S_v1_2, isDirectory |-> TRUE],
   [name |-> S_not_a_version, isDirectory |-> TRUE]}

\* directory listings: the children in the order readdir reports them
Listings ==
  UNION {{l \in [1..n -> EntryUniverse] :
            \A i, j \in 1..n : i # j => l[i].name # l[j].name} :
         n \in 0..MaxEntries}

NodeOutputs == {ExecFail, ExecOk(S_v20), ExecOk(S_v18 \o <<"\n">>)}
NpmOutputs == {ExecFail, ExecOk(<<"9", ".", "0", ".", "0">>)}
WhichOutputs ==
  {ExecFail, ExecOk(<<"/", "b">>), ExecOk(<<"/", "b", "\n", "/", "u">>)}
WhereOutputs == {ExecFail, ExecOk(<<"C", ":", "\\", "b", "\n">>)}

\* every combination of subprocess outcomes
Envs ==
  [node : NodeOutputs, npm : NpmOutputs,
   whichNode : WhichOutputs, whereNode : WhereOutputs,
   whichNpm : WhichOutputs \ {ExecOk(<<"/", "b">>)}, whereNpm : WhereOutputs]

EnvAllOk ==
  [node |-> ExecOk(S_v20), npm |-> ExecOk(<<"9", ".", "0", ".", "0">>),
   whichNode |-> ExecOk(<<"/", "b">>), whereNode |-> ExecFail,
   whichNpm |-> ExecOk(<<"/", "b", "\n", "/", "u">>), whereNpm |-> ExecFail]

\* the subprocess outcomes an enumeration is run against
EnvCases ==
  {EnvAllOk,
   [EnvAllOk EXCEPT !.node = ExecOk(S_v18 \o <<"\n">>)],
   [EnvAllOk EXCEPT !.node = ExecFail],
   [EnvAllOk EXCEPT !.npm = ExecFail],
   [EnvAllOk EXCEPT !.whichNpm = ExecFail]}

\* what the filesystem and the subprocesses answer during an enumeration
InstalledWorlds ==
  {[pathExists |-> FALSE, readdirOk |-> FALSE, entries |-> <<>>, env |-> e] :
     e \in EnvCases}
  \cup {[pathExists |-> TRUE, readdirOk |-> FALSE, entries |-> <<>>, env |-> e] :
          e \in EnvCases}
  \cup {[pathExists |-> TRUE, readdirOk |-> TRUE, entries |-> l, env |-> e] :
          l \in Listings, e \in EnvCases}

\* the strings isVersionInstalled is asked about
Queries == {S_v20, Tail(S_v20), S_v20_b}

\* the worlds isVersionInstalled is run against
QueryWorlds == {w \in InstalledWorlds : w.env = EnvAllOk}

\* the managers an enumeration is run on: platform and constructor argument
InstalledManagers ==
  {<<"linux", EmptyConfig>>,
   <<"win32", [EmptyConfig EXCEPT !.installDir = Val(<<"n">>),
                                  !.verbose = Val(TRUE)]>>,
   <<"darwin", [EmptyConfig EXCEPT !.installDir = Undef, !.verbose = Undef]>>}

VersionPaths == {<<"d">>, <<"n", PathSep("linux"), "v">>}

ValidateWorlds(plat) ==
  [files : SUBSET ({PathJoin(plat, <<p, S_node_exe>>) : p \in VersionPaths}
               \cup {PathJoin(plat, <<p, S_bin, S_node>>) : p \in VersionPaths}),
   exec  : {ExecFail, ExecOk(S_v20 \o <<"\n">>), ExecOk(Tail(S_v20)),
            ExecOk(<<" ", "v", "1">>), ExecOk(<<>>)}]

(* ---------------------------------------------------------------------- *)
(* State machine                                                           *)
(* ---------------------------------------------------------------------- *)

NoWorld == [none |-> TRUE]
NoArgs == [none |-> TRUE]
NoResult == [kind |-> "none"]

\* no call is under way
Rest ==
  /\ op = "idle"
  /\ args = NoArgs
  /\ world = NoWorld
  /\ result = NoResult
  /\ trace = <<>>
  /\ logged = <<>>

\* the state after new NodeManager()
Init ==
  /\ platform \in Platforms
  /\ given = EmptyConfig
  /\ config = constructor(platform, given)
  /\ Rest

\* the state after new NodeManager(config), for the managers enumerated on
InitInstalled ==
  /\ \E m \in InstalledManagers :
       /\ platform = m[1]
       /\ given = m[2]
       /\ config = constructor(m[1], m[2])
  /\ Rest

\* the caller holds no result of an earlier call
Idle == op = "idle"

\* the caller drops the result of the call it made
Return ==
  /\ ~Idle
  /\ op' = "idle"
  /\ args' = NoArgs
  /\ world' = NoWorld
  /\ result' = NoResult
  /\ trace' = <<>>
  /\ logged' = <<>>
  /\ UNCHANGED <<platform, given, config>>

\* createNodeManager(config): a new manager replaces the one held
Create(cfg) ==
  /\ given' = cfg
  /\ config' = constructor(platform, cfg)
  /\ UNCHANGED <<platform, op, args, world, result, trace, logged>>

CallCreate == Idle /\ \E cfg \in ConfigInputs : Create(cfg)

CallGetVersionPath ==
  /\ Idle
  /\ \E version \in {S_v20, Tail(S_v20), <<>>} :
    /\ op' = "getVersionPath"
    /\ args' = [version |-> version]
    /\ world' = NoWorld
    /\ result' = getVersionPath(platform, config, version)
    /\ trace' = <<>>
    /\ logged' = <<>>
    /\ UNCHANGED <<platform, given, config>>

CallParseVersion ==
  /\ Idle
  /\ \E versionStr \in VersionStrings :
    /\ op' = "parseVersion"
    /\ args' = [versionStr |-> versionStr]
    /\ world' = NoWorld
    /\ result' = [kind |-> "ok", value |-> parseVersion(versionStr)]
    /\ trace' = <<>>
    /\ logged' = <<>>
    /\ UNCHANGED <<platform, given, config>>

CallCompareVersions ==
  /\ Idle
  /\ \E v1 \in CompareStrings, v2 \in CompareStrings :
    /\ op' = "compareVersions"
    /\ args' = [v1 |-> v1, v2 |-> v2]
    /\ world' = NoWorld
    /\ result' = compareVersions(v1, v2)
    /\ trace' = <<>>
    /\ logged' = <<>>
    /\ UNCHANGED <<platform, given, config>>

CallGetCurrentEnvironment ==
  /\ Idle
  /\ \E e \in Envs :
    \E r \in {getCurrentEnvironment(platform, e)} :
       /\ op' = "getCurrentEnvironment"
       /\ args' = NoArgs
       /\ world' = e
       /\ result' = IF r.kind = "ok" THEN [kind |-> "ok", value |-> r.value]
                    ELSE [kind |-> "throw", error |-> r.error, cause |-> r.cause]
       /\ trace' = r.cmds
       /\ logged' = <<>>
       /\ UNCHANGED <<platform, given, config>>

CallGetInstalledVersions ==
  /\ Idle
  /\ \E w \in InstalledWorlds :
    \E r \in {getInstalledVersions(platform, config, w)} :
       /\ op' = "getInstalledVersions"
       /\ args' = NoArgs
       /\ world' = w
       /\ result' = [kind |-> r.kind, value |-> r.value, queries |-> r.queries]
       /\ trace' = r.cmds
       /\ logged' = r.logged
       /\ UNCHANGED <<platform, given, config>>

CallIsVersionInstalled ==
  /\ Idle
  /\ \E w \in QueryWorlds, version \in Queries :
    \E r \in {isVersionInstalled(platform, config, w, version)} :
       /\ op' = "isVersionInstalled"
       /\ args' = [version |-> version]
       /\ world' = w
       /\ result' = [kind |-> r.kind, value |-> r.value, queries |-> r.queries]
       /\ trace' = r.cmds
       /\ logged' = r.logged
       /\ UNCHANGED <<platform, given, config>>

CallValidateInstallation ==
  /\ Idle
  /\ \E versionPath \in VersionPaths, w \in ValidateWorlds(platform) :
    \E r \in {validateInstallation(platform, w, versionPath)} :
       /\ op' = "validateInstallation"
       /\ args' = [versionPath |-> versionPath]
       /\ world' = w
       /\ result' = [kind |-> r.kind, value |-> r.value]
       /\ trace' = r.cmds
       /\ logged' = <<>>
       /\ UNCHANGED <<platform, given, config>>

\* A manager keeps nothing from one call to the next, so every group of
\* methods is a specification of its own: what a call returns depends on its
\* arguments, the configuration and the outside world alone.
NextConfig == CallCreate \/ CallGetVersionPath \/ Return
NextParse == CallParseVersion \/ CallCompareVersions \/ Return
NextEnv == CallGetCurrentEnvironment \/ Return
NextInstalled == CallGetInstalledVersions \/ CallIsVersionInstalled \/ Return
NextValidate == CallValidateInstallation \/ Return

\* construction and getVersionPath
SpecConfig == Init /\ [][NextConfig]_vars
\* the pure version functions
SpecParse == Init /\ [][NextParse]_vars
\* the environment query
SpecEnv == Init /\ [][NextEnv]_vars
\* enumeration of the install directory
SpecInstalled == InitInstalled /\ [][NextInstalled]_vars
\* validation of one installation
SpecValidate == Init /\ [][NextValidate]_vars

(* ---------------------------------------------------------------------- *)
(* Properties                                                              *)
(* ---------------------------------------------------------------------- *)

Listed ==
  /\ config.installDir.k = "val"
  /\ world.pathExists
  /\ world.readdirOk

\* a child the enumeration keeps: a directory named v..., parseVersion accepts
Kept(e) ==
  /\ e.isDirectory
  /\ StartsWith(e.name, "v")
  /\ ~parseVersion(e.name).null

KeptChildren == {k \in 1..Len(world.entries) : Kept(world.entries[k])}

\* every subprocess the environment query needs answers
EnvSucceeds(e) ==
  /\ e.node.ok
  /\ e.npm.ok
  /\ e.whichNode.ok \/ e.whereNode.ok
  /\ e.whichNpm.ok \/ e.whereNpm.ok

\* the last segment of a path under the install directory
ChildName(path) == SubSeq(path, Len(config.installDir.v) + 2, Len(path))

\* "v" + major + "." + minor + "." + patch
Reconstructed(d) ==
  <<"v">> \o NumToStr(d.major) \o <<".">> \o NumToStr(d.minor)
    \o <<".">> \o NumToStr(d.patch)

\* C1: the collection getInstalledVersions returns is in descending version
\* order: for positions i < j, compareVersions(entry[i], entry[j]) >= 0, so
\* the newest installed version is first; v18.0.0, v20.0.0, not-a-version
\* yields v20.0.0 then v18.0.0.
C1_DescendingOrder ==
  op = "getInstalledVersions" =>
    /\ result.kind = "ok"
    /\ \A i, j \in 1..Len(result.value) :
         i < j => compareVersions(result.value[i].version,
                                  result.value[j].version).value >= 0
    /\ (Listed /\ Len(world.entries) = 3
          /\ world.entries[1].name = S_v18
          /\ world.entries[2].name = S_v20
          /\ world.entries[3].name = S_not_a_version)
         => /\ Len(result.value) = 2
            /\ result.value[1].version = S_v20
            /\ result.value[2].version = S_v18

C1_Witness ==
  /\ op = "getInstalledVersions"
  /\ Len(world.entries) = 3
  /\ world.entries[1].name = S_v18
  /\ world.entries[2].name = S_v20_rc
  /\ world.entries[3].name = S_v20
  /\ Len(result.value) = 3
  /\ result.value[1].version = S_v20
  /\ result.value[2].version = S_v20_rc
  /\ result.value[3].version = S_v18

\* C2: when the install directory is listed without error, the result has
\* exactly one entry for each child that is a directory, starts with "v" and
\* is accepted by parseVersion, and no other entry; every entry has default
\* false and the path of the install directory joined with the child's name.
C2_OneEntryPerKeptChild ==
  (op = "getInstalledVersions" /\ Listed) =>
    /\ result.kind = "ok"
    /\ Len(result.value) = Cardinality(KeptChildren)
    /\ \A k \in KeptChildren :
         Cardinality({i \in 1..Len(result.value) :
                        result.value[i].path
                          = PathJoin(platform, <<config.installDir.v,
                                                 world.entries[k].name>>)}) = 1
    /\ \A i \in 1..Len(result.value) :
         /\ result.value[i].default = FALSE
         /\ \E k \in KeptChildren :
              result.value[i].path
                = config.installDir.v \o <<PathSep(platform)>>
                    \o world.entries[k].name

C2_Witness ==
  /\ op = "getInstalledVersions"
  /\ Listed
  /\ Len(world.entries) = 3
  /\ Cardinality(KeptChildren) = 1
  /\ \E k \in 1..3 : ~world.entries[k].isDirectory
  /\ \E k \in 1..3 : world.entries[k].name = S_v1_2
  /\ Len(result.value) = 1

\* C3 as stated: for every valid semantic version string, with or without a
\* leading "v", parseVersion returns a descriptor whose version is
\* "v" + major + "." + minor + "." + patch; for every other string it returns
\* the absent result.
C3_Original ==
  op = "parseVersion" =>
    /\ result.kind = "ok"
    /\ ~SemverParse(args.versionStr).null
         => /\ ~result.value.null
            /\ result.value.version = Reconstructed(result.value)
    /\ SemverParse(args.versionStr).null => result.value.null

\* the pre-release text of a version string, "" when it has none
PreText(versionStr) ==
  LET p == SemverPieces(StripV(StripV(versionStr)))
  IN IF p.hasPre THEN <<"-">> \o p.pre ELSE <<>>

\* C3 amended: parseVersion never raises; it returns a descriptor for every
\* valid semantic version string, with or without a leading "v", and the
\* absent result exactly for the strings that are not a valid semantic
\* version once one leading "v" is removed (the parser itself tolerates one
\* more); the descriptor's version is "v" + major + "." + minor + "." + patch
\* followed by "-" and the pre-release identifiers when the string has a
\* pre-release suffix (build metadata is dropped).
C3_CanonicalWithPrerelease ==
  op = "parseVersion" =>
    /\ result.kind = "ok"
    /\ ~SemverParse(args.versionStr).null => ~result.value.null
    /\ result.value.null <=> SemverParse(StripV(args.versionStr)).null
    /\ ~result.value.null
         => result.value.version
              = Reconstructed(result.value) \o PreText(args.versionStr)

C3_Witness ==
  /\ op = "parseVersion"
  /\ args.versionStr = <<"v", "1", "0", ".", "2", ".", "0", "-", "r", "c", ".", "1">>
  /\ ~result.value.null
  /\ result.value.major = 10
  /\ result.value.version = args.versionStr

\* C4: getInstalledVersions never fails; it returns the empty collection
\* when the install directory does not exist and when listing it raises,
\* whether or not verbose logging is enabled.
C4_NeverFails ==
  op = "getInstalledVersions" =>
    /\ result.kind = "ok"
    /\ ~Listed => result.value = <<>>

C4_Witness ==
  /\ op = "getInstalledVersions"
  /\ world.pathExists
  /\ ~world.readdirOk
  /\ config.verbose = Val(TRUE)
  /\ logged # <<>>
  /\ result.kind = "ok"
  /\ result.value = <<>>

\* the flags and the order the entries must have
CurrentFlagsFollowQuery ==
  /\ \A i \in 1..Len(result.value) :
       result.value[i].current
         <=> /\ EnvSucceeds(world.env)
             /\ ChildName(result.value[i].path) = Trim(world.env.node.stdout)
  /\ ~EnvSucceeds(world.env)
       => result.value
            = [i \in 1..Len(result.value) |->
                 [getInstalledVersions(platform, config,
                                       [world EXCEPT !.env = EnvAllOk]).value[i]
                    EXCEPT !.current = FALSE]]
  /\ Len(result.value)
       = Len(getInstalledVersions(platform, config,
                                  [world EXCEPT !.env = EnvAllOk]).value)

\* C5 as stated: in one getInstalledVersions call the environment is queried
\* once, current is true exactly when the directory name equals the reported
\* Node version, and a failed query leaves the entries and their order
\* unchanged with current false.
C5_Original ==
  op = "getInstalledVersions" =>
    /\ result.queries = 1
    /\ CurrentFlagsFollowQuery

\* C5 amended: in one getInstalledVersions call the environment is queried
\* at most once: exactly once when the install directory exists and is
\* listed without error, and not at all otherwise; current is true exactly
\* when the directory name equals the reported Node version, and a failed
\* query leaves the entries and their order unchanged with current false.
C5_QueriedOnceWhenListed ==
  op = "getInstalledVersions" =>
    /\ result.queries = (IF Listed THEN 1 ELSE 0)
    /\ Cardinality({i \in 1..Len(trace) : trace[i] = <<"node", "--version">>})
         = result.queries
    /\ CurrentFlagsFollowQuery

C5_Witness ==
  /\ op = "getInstalledVersions"
  /\ result.queries = 1
  /\ Len(result.value) = 2
  /\ result.value[1].version = result.value[2].version
  /\ \E i \in 1..2 : result.value[i].current
  /\ \E i \in 1..2 : ~result.value[i].current

\* C6: getCurrentEnvironment is all-or-nothing: when node --version or
\* npm --version fails the call fails with one error wrapping the cause;
\* when a snapshot is returned all four subprocess results were obtained.
C6_AllOrNothing ==
  op = "getCurrentEnvironment" =>
    /\ ~world.node.ok
         => /\ result.kind = "throw"
            /\ result.cause = <<"node", "--version">>
    /\ (world.node.ok /\ ~world.npm.ok)
         => /\ result.kind = "throw"
            /\ result.cause = <<"npm", "--version">>
    /\ result.kind = "ok"
         => /\ EnvSucceeds(world)
            /\ result.value.nodeVersion = Trim(world.node.stdout)
            /\ result.value.npmVersion = Trim(world.npm.stdout)
            /\ Len(result.value.nodePath) > 0
            /\ Len(result.value.npmPath) > 0

C6_Witness ==
  /\ op = "getCurrentEnvironment"
  /\ world.node.ok
  /\ ~world.npm.ok
  /\ world.whichNode.ok
  /\ world.whichNpm.ok
  /\ result.kind = "throw"

\* C7: after construction installDir, mirror and verbose each hold a defined
\* value: the caller's for a field the caller gave, the default otherwise.
C7_ConfigDefined ==
  /\ config.installDir.k = "val"
  /\ config.mirror.k = "val"
  /\ config.verbose.k = "val"
  /\ given.installDir.k = "val" => config.installDir = given.installDir
  /\ given.mirror.k = "val" => config.mirror = given.mirror
  /\ given.verbose.k = "val" => config.verbose = given.verbose
  /\ given.installDir.k = "absent"
       => config.installDir.v
            = HomeDir(platform) \o <<PathSep(platform)>> \o S_ldesign
                \o <<PathSep(platform)>> \o S_node
  /\ given.mirror.k = "absent" => config.mirror.v = DefaultMirror
  /\ given.verbose.k = "absent" => config.verbose.v = FALSE
  /\ op = "getVersionPath" => result.kind = "ok"

\* C8: isVersionInstalled(s) is true exactly when the enumeration holds an
\* entry whose canonical version equals s character for character; s is not
\* normalised, so an s without the "v" prefix never matches; it never
\* raises and is false when the directory is missing or its listing fails.
C8_ExactMatch ==
  op = "isVersionInstalled" =>
    /\ result.kind = "ok"
    /\ result.value
         <=> /\ Listed
             /\ \E k \in KeptChildren :
                  parseVersion(world.entries[k].name).version = args.version
    /\ ~StartsWith(args.version, "v") => ~result.value

C8_Witness ==
  /\ op = "isVersionInstalled"
  /\ Listed
  /\ args.version = Tail(S_v20)
  /\ \E k \in KeptChildren : world.entries[k].name = S_v20
  /\ result.value = FALSE

\* the binary the platform expects under p
ExpectedBinary(p) ==
  IF platform = "win32" THEN p \o <<"\\">> \o S_node_exe
  ELSE p \o <<"/">> \o S_bin \o <<"/">> \o S_node

\* C9: validateInstallation never raises and is true exactly when the
\* platform's binary exists, running it succeeds and its trimmed output
\* starts with "v"; a missing binary gives false without a subprocess.
C9_ValidateInstallation ==
  op = "validateInstallation" =>
    /\ result.kind = "ok"
    /\ result.value
         <=> /\ ExpectedBinary(args.versionPath) \in world.files
             /\ world.exec.ok
             /\ StartsWith(Trim(world.exec.stdout), "v")
    /\ ExpectedBinary(args.versionPath) \notin world.files => trace = <<>>
    /\ ExpectedBinary(args.versionPath) \in world.files
         => trace = <<<<ExpectedBinary(args.versionPath), "--version">>>>

C9_Witness ==
  /\ op = "validateInstallation"
  /\ platform = "win32"
  /\ Cardinality(world.files) = 1
  /\ world.exec = ExecOk(<<" ", "v", "1">>)
  /\ result.value = TRUE

\* positions in the trace of the lookups of one executable
LookupsOf(name) == {i \in 1..Len(trace) : trace[i][2] = name}

\* where is invoked only right after a failed which of the same executable
WhereOnlyAfterFailedWhich ==
  \A i \in 1..Len(trace) :
    trace[i][1] = "where"
      => /\ i > 1
         /\ trace[i - 1] = <<"which", trace[i][2]>>
         /\ ~(IF trace[i][2] = "node" THEN world.whichNode.ok
              ELSE world.whichNpm.ok)

\* the call fails on a lookup only when both lookups of an executable fail
FailsOnlyIfBothFail ==
  (world.node.ok /\ world.npm.ok)
    => (result.kind = "throw"
          <=> \/ ~world.whichNode.ok /\ ~world.whereNode.ok
              \/ ~world.whichNpm.ok /\ ~world.whereNpm.ok)

\* C10 as stated: for node and for npm the first lookup invoked is the
\* platform's (which on POSIX, where on Windows); the other one is invoked
\* only after it failed, and the call fails only if both fail.
C10_Original ==
  op = "getCurrentEnvironment" =>
    /\ \A name \in {"node", "npm"} :
         LookupsOf(name) # {}
           => trace[CHOOSE i \in LookupsOf(name) :
                      \A j \in LookupsOf(name) : i <= j][1]
                = (IF platform = "win32" THEN "where" ELSE "which")
    /\ FailsOnlyIfBothFail

\* C10 amended: for node and for npm the first lookup invoked is which, on
\* every platform; where is invoked only after which has failed, and a
\* lookup makes the call fail only if both lookups fail.
C10_WhichFirst ==
  op = "getCurrentEnvironment" =>
    /\ \A name \in {"node", "npm"} :
         LookupsOf(name) # {}
           => trace[CHOOSE i \in LookupsOf(name) :
                      \A j \in LookupsOf(name) : i <= j][1] = "which"
    /\ WhereOnlyAfterFailedWhich
    /\ FailsOnlyIfBothFail

C10_Witness ==
  /\ op = "getCurrentEnvironment"
  /\ platform = "win32"
  /\ Len(trace) = 5
  /\ trace[3] = <<"which", "node">>
  /\ trace[4] = <<"where", "node">>
  /\ result.kind = "ok"

====
